---------------------------- MODULE Spec2Model ----------------------------
(***************************************************************************)
(* Model of chat_bot_app.py: the in-memory conversation transcript, the    *)
(* turn executor get_chatbot_response, the reply sanitizer clean_response  *)
(* and the Flask routes /, /chat and /reset, served by concurrent request  *)
(* handler threads that share the module-level list conversation_history.  *)
(*                                                                         *)
(* Text is a sequence of one-character strings, so that the regular        *)
(* expressions and str.strip() are computed character by character.        *)
(***************************************************************************)
EXTENDS Integers, Sequences, FiniteSets, TLC

(***************************************************************************)
(* Bounds of the model.                                                    *)
(***************************************************************************)
NumThreads == 2      \* request handler threads of the server
MaxRequests == 2     \* requests that arrive during a run
MaxFrags == 6        \* fragments per sanitizer input (SpecClean)

Threads == 1 .. NumThreads
Missing == << >>        \* the form has no question field
Present(s) == << s >>   \* the form carries the question field s

(***************************************************************************)
(* Characters.                                                             *)
(***************************************************************************)
IsSpace(c) == c \in {" ", "\n", "\t"}
IsDigit(c) == c \in {"0", "1", "2", "3", "4", "5", "6", "7", "8", "9"}

\* Index of the first character at or after i that is not whitespace
\* (Len(s) + 1 when the whitespace runs to the end).
RECURSIVE SkipSpaces(_, _)
SkipSpaces(s, i) ==
    IF i <= Len(s) /\ IsSpace(s[i]) THEN SkipSpaces(s, i + 1) ELSE i

\* Index of the first character at or after i that is not a digit.
RECURSIVE SkipDigits(_, _)
SkipDigits(s, i) ==
    IF i <= Len(s) /\ IsDigit(s[i]) THEN SkipDigits(s, i + 1) ELSE i

\* The pattern \[doc\d+\] matched at position i: the index just after the
\* match, or 0 when it does not match there.
CitationEnd(s, i) ==
    IF /\ i + 5 <= Len(s)
       /\ s[i] = "[" /\ s[i + 1] = "d" /\ s[i + 2] = "o" /\ s[i + 3] = "c"
       /\ IsDigit(s[i + 4])
    THEN LET j == SkipDigits(s, i + 4)
         IN  IF j <= Len(s) /\ s[j] = "]" THEN j + 1 ELSE 0
    ELSE 0

\* re.sub(r"\[doc\d+\]", "", text): one left-to-right pass over the
\* non-overlapping matches.
RECURSIVE SubCitations(_, _)
SubCitations(s, i) ==
    IF i > Len(s) THEN << >>
    ELSE LET e == CitationEnd(s, i)
         IN  IF e # 0 THEN SubCitations(s, e)
                      ELSE << s[i] >> \o SubCitations(s, i + 1)

\* re.sub(r"\s+\.", ".", text)
RECURSIVE SubSpaceDot(_, _)
SubSpaceDot(s, i) ==
    IF i > Len(s) THEN << >>
    ELSE IF IsSpace(s[i])
         THEN LET k == SkipSpaces(s, i)
              IN  IF k <= Len(s) /\ s[k] = "."
                  THEN << "." >> \o SubSpaceDot(s, k + 1)
                  ELSE << s[i] >> \o SubSpaceDot(s, i + 1)
         ELSE << s[i] >> \o SubSpaceDot(s, i + 1)

\* re.sub(r"\s+", " ", text)
RECURSIVE SubSpaces(_, _)
SubSpaces(s, i) ==
    IF i > Len(s) THEN << >>
    ELSE IF IsSpace(s[i])
         THEN << " " >> \o SubSpaces(s, SkipSpaces(s, i))
         ELSE << s[i] >> \o SubSpaces(s, i + 1)

\* str.strip()
RECURSIVE RStrip(_)
RStrip(s) ==
    IF s # << >> /\ IsSpace(s[Len(s)]) THEN RStrip(SubSeq(s, 1, Len(s) - 1))
    ELSE s

\* Mutant of Strip: s.strip(" "), which leaves newlines and tabs in place.
RECURSIVE RStripBlanks(_)
RStripBlanks(s) ==
    IF s # << >> /\ s[Len(s)] = " " THEN RStripBlanks(SubSeq(s, 1, Len(s) - 1))
    ELSE s

RECURSIVE LStripBlanks(_)
LStripBlanks(s) ==
    IF s # << >> /\ s[1] = " " THEN LStripBlanks(Tail(s)) ELSE s

StripBlanksOnly(s) == RStripBlanks(LStripBlanks(s))

Strip(s) == LET i == SkipSpaces(s, 1) IN RStrip(SubSeq(s, i, Len(s)))

clean_response(text) ==
    Strip(SubSpaces(SubSpaceDot(SubCitations(text, 1), 1), 1))

\* Some position of s starts a citation marker [docN].
HasCitation(s) == \E i \in 1 .. Len(s) : CitationEnd(s, i) # 0


(***************************************************************************)
(* Turns and the transcript.                                               *)
(***************************************************************************)
Greeting ==
    << "H", "e", "l", "l", "o", "!", " ", "H", "o", "w", " ", "c", "a", "n",
       " ", "I", " ", "a", "s", "s", "i", "s", "t", " ", "y", "o", "u", " ",
       "t", "o", "d", "a", "y", "?" >>

GreetingTurn(ts) ==
    [role |-> "assistant", content |-> Greeting, timestamp |-> ts]

UserTurn(user_message, ts) ==
    [role |-> "user", content |-> user_message, timestamp |-> ts]

AssistantTurn(reply, ts) ==
    [role |-> "assistant", content |-> reply, timestamp |-> ts]

\* Mutant of FreshTranscript: an empty list, with no greeting seeded.
EmptyTranscript(ts) == << >>

\* The list literal bound to conversation_history at import and by /reset.
FreshTranscript(ts) == << GreetingTurn(ts) >>

\* Mutant of MessagesForApi: the turns are sent as stored, timestamps
\* included.
MessagesWithTimestamps(history) == history

\* The list comprehension that strips the timestamps for the model call.
MessagesForApi(history) ==
    [i \in 1 .. Len(history) |->
        [role |-> history[i].role, content |-> history[i].content]]

\* Mutant of FormQuestion: the field is not stripped.
FormQuestionUnstripped(f) == IF f = Missing THEN << >> ELSE f[1]

\* request.form.get("question", "").strip()
FormQuestion(f) == Strip(IF f = Missing THEN << >> ELSE f[1])

(***************************************************************************)
(* Inputs: the form field of a POST /chat and the text of the first        *)
(* candidate the completion service returns.                               *)
(***************************************************************************)
Forms ==
    { Missing, Present(<< >>), Present(<< " ", "\n" >>),
      Present(<< " ", "a", "\n" >>), Present(<< "b" >>) }

RawReplies ==
    { << "O", "k", " ", "[", "d", "o", "c", "1", "]", " ", "." >> }

Fragments ==
    { << "[", "d", "o", "c" >>, << "1" >>, << "]" >>, << " " >>, << "." >>,
      << "a" >> }

RECURSIVE Flatten(_)
Flatten(fs) == IF fs = << >> THEN << >> ELSE Head(fs) \o Flatten(Tail(fs))

CleanInputs ==
    { Flatten(fs) : fs \in UNION { [1 .. n -> Fragments] : n \in 0 .. MaxFrags } }

(***************************************************************************)
(* State.                                                                  *)
(*   conversation_history   the module-level list of turns                 *)
(*   pc, form, user_q, messages_for_api, calls, assistant_reply            *)
(*                          the request each handler thread is serving     *)
(*                          and the locals of chat() and                   *)
(*                          get_chatbot_response(); an idle thread holds   *)
(*                          none                                           *)
(*   last                   the request completed most recently and the    *)
(*                          response it got                                *)
(*   arrivals               requests received so far                       *)
(*   before, appended, interfered, reset_during, raced, failed             *)
(*                          history of the run, read by the properties     *)
(*                          only                                           *)
(*   text, cleaned, recleaned, stage                                       *)
(*                          the sanitizer applied to an input twice        *)
(***************************************************************************)
VARIABLES conversation_history,
          pc, form, user_q, messages_for_api, calls, assistant_reply,
          last, arrivals,
          before, appended, interfered, reset_during, raced, failed,
          text, cleaned, recleaned, stage

locals == << pc, form, user_q, messages_for_api, calls, assistant_reply >>
ghosts == << before, appended, interfered, reset_during, raced, failed >>
sanitizer == << text, cleaned, recleaned, stage >>
vars == << conversation_history, locals, last, arrivals, ghosts,
          sanitizer >>

\* datetime.now().strftime("%I:%M %p").  The program only stores and
\* renders a timestamp, so the readings of the clock are not told apart.
current_time == "hh:mm"

Active(t) == pc[t] # "idle"

\* Submissions in progress: each may still append to the transcript.
Pending == Cardinality({t \in Threads : Active(t)})

\* A completed request and its response.  For a request that changes the
\* transcript, prior_len is the length of the transcript when it arrived
\* and disturbed tells whether /reset ran while it was in progress.
Completed(rt, f, resp, n, k, len, rd) ==
    [route |-> rt, form |-> f, response |-> resp, calls |-> n,
     appended |-> k, prior_len |-> len, disturbed |-> rd]

NoRequest == Completed("none", Missing, "none", 0, 0, 0, FALSE)

\* Thread t changes the transcript: every other request in progress has
\* been interfered with.
Interfere(t) ==
    /\ interfered' = [u \in Threads |->
                         IF u # t /\ Active(u) THEN TRUE ELSE interfered[u]]
    /\ raced' = (raced \/ \E u \in Threads : u # t /\ Active(u))

\* Thread t leaves its handler: the locals are gone.
Return(t) ==
    /\ pc' = [pc EXCEPT ![t] = "idle"]
    /\ form' = [form EXCEPT ![t] = Missing]
    /\ user_q' = [user_q EXCEPT ![t] = << >>]
    /\ messages_for_api' = [messages_for_api EXCEPT ![t] = << >>]
    /\ calls' = [calls EXCEPT ![t] = 0]
    /\ assistant_reply' = [assistant_reply EXCEPT ![t] = << >>]
    /\ before' = [before EXCEPT ![t] = << >>]
    /\ appended' = [appended EXCEPT ![t] = 0]
    /\ interfered' = [interfered EXCEPT ![t] = FALSE]
    /\ reset_during' = [reset_during EXCEPT ![t] = FALSE]

InitServer ==
    /\ conversation_history = FreshTranscript(current_time)
    /\ pc = [t \in Threads |-> "idle"]
    /\ form = [t \in Threads |-> Missing]
    /\ user_q = [t \in Threads |-> << >>]
    /\ messages_for_api = [t \in Threads |-> << >>]
    /\ calls = [t \in Threads |-> 0]
    /\ assistant_reply = [t \in Threads |-> << >>]
    /\ last = NoRequest
    /\ arrivals = 0
    /\ before = [t \in Threads |-> << >>]
    /\ appended = [t \in Threads |-> 0]
    /\ interfered = [t \in Threads |-> FALSE]
    /\ reset_during = [t \in Threads |-> FALSE]
    /\ raced = FALSE
    /\ failed = FALSE

Init ==
    /\ InitServer
    /\ text = << >> /\ cleaned = << >> /\ recleaned = << >> /\ stage = "unused"

(***************************************************************************)
(* Routes.  A handler thread serves one request at a time; list.append,    *)
(* the list comprehension and the rebinding of the global are single       *)
(* steps, and other threads run between any two steps of a request.        *)
(***************************************************************************)
\* GET /: the static landing page.
home(t) ==
    /\ pc[t] = "idle"
    /\ arrivals < MaxRequests
    /\ arrivals' = arrivals + 1
    /\ last' = Completed("home", Missing, "static", 0, 0, 0, FALSE)
    /\ UNCHANGED << conversation_history, locals, ghosts, sanitizer >>

\* GET /chat: renders the current transcript.
chat_get(t) ==
    /\ pc[t] = "idle"
    /\ arrivals < MaxRequests
    /\ arrivals' = arrivals + 1
    /\ last' = Completed("chat_get", Missing, "page", 0, 0, 0, FALSE)
    /\ UNCHANGED << conversation_history, locals, ghosts, sanitizer >>

\* Mutant of reset: the greeting is appended to the list in place of a
\* new list.
reset_appends(t) ==
    /\ pc[t] = "idle"
    /\ arrivals < MaxRequests
    /\ arrivals' = arrivals + 1
    /\ conversation_history' =
          Append(conversation_history, GreetingTurn(current_time))
    /\ last' = Completed("reset", Missing, "redirect", 0, 0,
                         Len(conversation_history), FALSE)
    /\ Interfere(t)
    /\ reset_during' = [u \in Threads |-> Active(u) \/ reset_during[u]]
    /\ failed' = FALSE
    /\ UNCHANGED << locals, before, appended, sanitizer >>

\* GET /reset: binds conversation_history to a new one-greeting list.
reset(t) ==
    /\ pc[t] = "idle"
    /\ arrivals < MaxRequests
    /\ arrivals' = arrivals + 1
    /\ conversation_history' = FreshTranscript(current_time)
    /\ last' = Completed("reset", Missing, "redirect", 0, 0,
                         Len(conversation_history), FALSE)
    /\ Interfere(t)
    /\ reset_during' = [u \in Threads |-> Active(u) \/ reset_during[u]]
    /\ failed' = FALSE
    /\ UNCHANGED << locals, before, appended, sanitizer >>

\* POST /chat: read and strip the field; an empty question redirects at
\* once, any other enters get_chatbot_response.
chat_post(t, f) ==
    /\ pc[t] = "idle"
    /\ arrivals < MaxRequests
    /\ arrivals' = arrivals + 1
    /\ IF FormQuestion(f) = << >>
       THEN /\ last' = Completed("chat_post", f, "redirect", 0, 0, 0, FALSE)
            /\ UNCHANGED << pc, form, user_q, before >>
       ELSE /\ pc' = [pc EXCEPT ![t] = "append_user"]
            /\ form' = [form EXCEPT ![t] = f]
            /\ user_q' = [user_q EXCEPT ![t] = FormQuestion(f)]
            /\ before' = [before EXCEPT ![t] = conversation_history]
            /\ UNCHANGED last
    /\ UNCHANGED << conversation_history, messages_for_api, calls,
                    assistant_reply, appended, interfered, reset_during,
                    raced, failed, sanitizer >>

\* conversation_history.append({"role": "user", ...})
append_user(t) ==
    /\ pc[t] = "append_user"
    /\ conversation_history' =
          Append(conversation_history, UserTurn(user_q[t], current_time))
    /\ appended' = [appended EXCEPT ![t] = @ + 1]
    /\ pc' = [pc EXCEPT ![t] = "build_messages"]
    /\ Interfere(t)
    /\ UNCHANGED << arrivals, form, user_q, messages_for_api, calls,
                    assistant_reply, last, before, reset_during, failed,
                    sanitizer >>

\* messages_for_api = [... for m in conversation_history]
build_messages(t) ==
    /\ pc[t] = "build_messages"
    /\ messages_for_api' =
          [messages_for_api EXCEPT ![t] = MessagesForApi(conversation_history)]
    /\ pc' = [pc EXCEPT ![t] = "call"]
    /\ UNCHANGED << arrivals, conversation_history, form, user_q, calls,
                    assistant_reply, last, ghosts, sanitizer >>

\* Mutant of create_call: the request is sent twice.
create_call_twice(t) ==
    /\ pc[t] = "call"
    /\ calls' = [calls EXCEPT ![t] = @ + 2]
    /\ pc' = [pc EXCEPT ![t] = "await"]
    /\ UNCHANGED << arrivals, conversation_history, form, user_q,
                    messages_for_api, assistant_reply, last, ghosts,
                    sanitizer >>

\* client.chat.completions.create(...) is called with messages_for_api.
create_call(t) ==
    /\ pc[t] = "call"
    /\ calls' = [calls EXCEPT ![t] = @ + 1]
    /\ pc' = [pc EXCEPT ![t] = "await"]
    /\ UNCHANGED << arrivals, conversation_history, form, user_q,
                    messages_for_api, assistant_reply, last, ghosts,
                    sanitizer >>

\* The call returns a candidate, whose text is sanitized.
create_returns(t, raw) ==
    /\ pc[t] = "await"
    /\ assistant_reply' = [assistant_reply EXCEPT ![t] = clean_response(raw)]
    /\ pc' = [pc EXCEPT ![t] = "append_assistant"]
    /\ UNCHANGED << arrivals, conversation_history, form, user_q,
                    messages_for_api, calls, last, ghosts, sanitizer >>

\* Mutant of create_fails: the failure is caught and the call made again.
create_fails_retries(t) ==
    /\ pc[t] = "await"
    /\ pc' = [pc EXCEPT ![t] = "call"]
    /\ UNCHANGED << arrivals, conversation_history, form, user_q,
                    messages_for_api, calls, assistant_reply, last, ghosts,
                    sanitizer >>

\* The call raises, or returns no candidate (choices[0] raises): the
\* exception leaves the handler and the server answers with an error.
create_fails(t) ==
    /\ pc[t] = "await"
    /\ last' = Completed("chat_post", form[t], "error", calls[t], appended[t],
                         Len(before[t]), reset_during[t])
    /\ Return(t)
    /\ failed' = TRUE
    /\ UNCHANGED << arrivals, conversation_history, raced, sanitizer >>

\* Mutant of append_assistant: the handler writes back the history it
\* sent plus the reply, dropping what other requests appended since.
append_assistant_writes_back(t) ==
    /\ pc[t] = "append_assistant"
    /\ conversation_history' =
          Append(SubSeq(conversation_history, 1,
                        IF Len(messages_for_api[t]) < Len(conversation_history)
                        THEN Len(messages_for_api[t])
                        ELSE Len(conversation_history)),
                 AssistantTurn(assistant_reply[t], current_time))
    /\ appended' = [appended EXCEPT ![t] = @ + 1]
    /\ pc' = [pc EXCEPT ![t] = "respond"]
    /\ Interfere(t)
    /\ UNCHANGED << arrivals, form, user_q, messages_for_api, calls,
                    assistant_reply, last, before, reset_during, failed,
                    sanitizer >>

\* conversation_history.append({"role": "assistant", ...})
append_assistant(t) ==
    /\ pc[t] = "append_assistant"
    /\ conversation_history' =
          Append(conversation_history,
                 AssistantTurn(assistant_reply[t], current_time))
    /\ appended' = [appended EXCEPT ![t] = @ + 1]
    /\ pc' = [pc EXCEPT ![t] = "respond"]
    /\ Interfere(t)
    /\ UNCHANGED << arrivals, form, user_q, messages_for_api, calls,
                    assistant_reply, last, before, reset_during, failed,
                    sanitizer >>

\* get_chatbot_response returns and chat() answers with the redirect.
chat_redirect(t) ==
    /\ pc[t] = "respond"
    /\ last' = Completed("chat_post", form[t], "redirect", calls[t],
                         appended[t], Len(before[t]), reset_during[t])
    /\ Return(t)
    /\ UNCHANGED << arrivals, conversation_history, raced, failed,
                    sanitizer >>

Next ==
    \/ \E t \in Threads : home(t)
    \/ \E t \in Threads : chat_get(t)
    \/ \E t \in Threads : reset(t)
    \/ \E t \in Threads, f \in Forms : chat_post(t, f)
    \/ \E t \in Threads : append_user(t)
    \/ \E t \in Threads : build_messages(t)
    \/ \E t \in Threads : create_call(t)
    \/ \E t \in Threads, raw \in RawReplies : create_returns(t, raw)
    \/ \E t \in Threads : create_fails(t)
    \/ \E t \in Threads : append_assistant(t)
    \/ \E t \in Threads : chat_redirect(t)

Spec == Init /\ [][Next]_vars

(***************************************************************************)
(* The sanitizer on its own: an input text, sanitized, then sanitized      *)
(* again.                                                                  *)
(***************************************************************************)
InitClean ==
    /\ InitServer
    /\ text \in CleanInputs
    /\ cleaned = << >> /\ recleaned = << >> /\ stage = "input"

Sanitize ==
    /\ stage = "input"
    /\ cleaned' = clean_response(text)
    /\ stage' = "cleaned"
    /\ UNCHANGED << arrivals, conversation_history, locals, last,
                    ghosts, text, recleaned >>

Resanitize ==
    /\ stage = "cleaned"
    /\ recleaned' = clean_response(cleaned)
    /\ stage' = "recleaned"
    /\ UNCHANGED << arrivals, conversation_history, locals, last,
                    ghosts, text, cleaned >>

NextClean == Sanitize \/ Resanitize

SpecClean == InitClean /\ [][NextClean]_vars

(***************************************************************************)
(* Vocabulary of the properties, stated without the operators of the model *)
(* they are about.                                                         *)
(***************************************************************************)
\* The question field is missing, empty or whitespace-only.
Blank(f) == f = Missing \/ \A i \in 1 .. Len(f[1]) : IsSpace(f[1][i])

\* x is s without its leading and trailing whitespace.
IsTrimOf(x, s) ==
    \E i \in 1 .. Len(s) + 1 : \E j \in 0 .. Len(s) :
        /\ x = SubSeq(s, i, j)
        /\ \A k \in 1 .. Len(s) : (k < i \/ k > j) => IsSpace(s[k])
        /\ x # << >> => (~IsSpace(x[1]) /\ ~IsSpace(x[Len(x)]))

\* The turn is the user turn of the submission thread t is serving.
IsUserTurnOf(turn, t) ==
    /\ turn.role = "user"
    /\ IsTrimOf(turn.content, form[t][1])

\* h is the transcript thread t found, then its user turn and nothing else.
PriorPlusUserTurn(h, t) ==
    /\ Len(h) = Len(before[t]) + 1
    /\ SubSeq(h, 1, Len(before[t])) = before[t]
    /\ IsUserTurnOf(h[Len(h)], t)

\* h is the transcript thread t found, then its user turn, then its
\* assistant turn.
PriorPlusBothTurns(h, t) ==
    /\ Len(h) = Len(before[t]) + 2
    /\ SubSeq(h, 1, Len(before[t])) = before[t]
    /\ IsUserTurnOf(h[Len(h) - 1], t)
    /\ h[Len(h)].role = "assistant"
    /\ h[Len(h)].content = assistant_reply[t]

IsGreetingTurn(turn) == turn.role = "assistant" /\ turn.content = Greeting

SuccessfulSubmission(r) ==
    r.route = "chat_post" /\ ~Blank(r.form) /\ r.response = "redirect"

Min(a, b) == IF a <= b THEN a ELSE b

(***************************************************************************)
(* C1.  As claimed: when a non-empty submission whose call succeeded is    *)
(* answered, the transcript is the transcript the request found, followed  *)
(* by its user turn (the trimmed text) and its assistant turn (the reply). *)
(***************************************************************************)
C1_AsClaimed ==
    \A t \in Threads :
        pc[t] = "respond" => PriorPlusBothTurns(conversation_history, t)

\* C1, amended: the same, for a submission during which no other request
\* changed the transcript.
C1_SubmissionAppendsTwo ==
    \A t \in Threads :
        (pc[t] = "respond" /\ ~interfered[t])
            => PriorPlusBothTurns(conversation_history, t)

C1_Witness ==
    \E t \in Threads :
        /\ pc[t] = "respond" /\ ~interfered[t]
        /\ Len(before[t]) >= 3
        /\ form[t][1] # user_q[t]
        /\ Len(conversation_history) = Len(before[t]) + 2

(***************************************************************************)
(* C2.  A POST /chat whose question is missing, empty or whitespace-only   *)
(* changes no turn of the transcript, starts no call of the completion     *)
(* service and is answered with the redirect.                              *)
(***************************************************************************)
C2_BlankPostIsNoOp ==
    [][\A t \in Threads : \A f \in Forms :
          (Blank(f) /\ chat_post(t, f))
              => /\ conversation_history' = conversation_history
                 /\ pc' = pc /\ calls' = calls
                 /\ last'.route = "chat_post" /\ last'.response = "redirect"
                 /\ last'.calls = 0 /\ last'.appended = 0]_vars

C2_Witness ==
    /\ last.route = "chat_post" /\ last.response = "redirect"
    /\ last.form = Present(<< " ", "\n" >>)
    /\ Len(conversation_history) >= 3

(***************************************************************************)
(* C3.  As claimed: the transcript starts with the greeting, every user    *)
(* turn whose call has completed is immediately followed by an assistant   *)
(* turn, and every assistant turn but the greeting immediately follows a   *)
(* user turn.                                                              *)
(***************************************************************************)
StartsWithGreeting ==
    conversation_history # << >> /\ IsGreetingTurn(conversation_history[1])

\* Some submission has appended its user turn and not yet its assistant
\* turn.
CallOutstanding ==
    \E t \in Threads : pc[t] \in {"build_messages", "call", "await",
                                  "append_assistant"}

AssistantFollowsUser ==
    \A i \in 2 .. Len(conversation_history) :
        conversation_history[i].role = "assistant"
            => conversation_history[i - 1].role = "user"

UserFollowedByAssistant ==
    \A i \in 2 .. Len(conversation_history) :
        conversation_history[i].role = "user"
            => IF i < Len(conversation_history)
               THEN conversation_history[i + 1].role = "assistant"
               ELSE CallOutstanding

C4_ResetYieldsGreeting ==
    [][\A t \in Threads :
          reset(t)
              => /\ Len(conversation_history') = 1
                 /\ IsGreetingTurn(conversation_history'[1])
                 /\ last'.route = "reset" /\ last'.response = "redirect"]_vars

C4_Witness ==
    /\ last.route = "reset" /\ last.prior_len >= 3
    /\ Len(conversation_history) = 1

(***************************************************************************)
(* C5.  The sanitizer's output contains no citation marker [docN].         *)
(***************************************************************************)
C5_NoCitationLeft ==
    stage \in {"cleaned", "recleaned"} => ~HasCitation(cleaned)

(***************************************************************************)
(* C6.  Sanitizing the sanitizer's output gives that output again.         *)
(***************************************************************************)
C6_Idempotent ==
    stage = "recleaned" => recleaned = cleaned

\* The sanitizer is idempotent on every input whose output holds no
\* citation marker: C6 fails only where C5 does.
IdempotentUnlessCitationLeft ==
    (stage = "recleaned" /\ ~HasCitation(cleaned)) => recleaned = cleaned

(***************************************************************************)
(* C7.  A request makes at most one call of the completion service: none   *)
(* for GET /, GET /chat, GET /reset and a blank POST /chat, exactly one    *)
(* for any other POST /chat, whose redirect comes only after the call has  *)
(* returned and the assistant turn has been appended.                      *)
(***************************************************************************)
C7_OneCallAwaited ==
    /\ \A t \in Threads :
          calls[t] = IF pc[t] \in {"await", "append_assistant", "respond"}
                     THEN 1 ELSE 0
    /\ last.route \in {"home", "chat_get", "reset"} => last.calls = 0
    /\ last.route = "chat_post"
          => last.calls = IF Blank(last.form) THEN 0 ELSE 1
    /\ SuccessfulSubmission(last) => last.appended = 2

C7_Witness ==
    SuccessfulSubmission(last) /\ last.calls = 1

(***************************************************************************)
(* C8.  As claimed: when a submission calls the completion service, the    *)
(* messages it sends are the role and content of every turn of the         *)
(* transcript, in order; the first is the greeting and the last is the     *)
(* user turn the submission has just appended.                             *)
(***************************************************************************)
SendsWholeTranscript(t) ==
    /\ Len(messages_for_api[t]) = Len(conversation_history)
    /\ \A i \in 1 .. Len(conversation_history) :
          messages_for_api[t][i] =
              [role |-> conversation_history[i].role,
               content |-> conversation_history[i].content]
    /\ messages_for_api[t][1] = [role |-> "assistant", content |-> Greeting]
    /\ IsUserTurnOf(messages_for_api[t][Len(messages_for_api[t])], t)
    /\ conversation_history[Len(conversation_history)].content = user_q[t]

\* C8 as claimed: every submission about to call the service sends the
\* whole transcript, ending with its own user turn.
C8_AsClaimed ==
    \A t \in Threads : pc[t] = "call" => SendsWholeTranscript(t)

\* C8, amended: the same, for a submission during which no other request
\* changed the transcript.
C8_MessagesAreTranscript ==
    \A t \in Threads :
        (pc[t] = "call" /\ ~interfered[t]) => SendsWholeTranscript(t)

C8_Witness ==
    \E t \in Threads :
        /\ pc[t] = "call" /\ ~interfered[t]
        /\ Len(messages_for_api[t]) >= 4

(***************************************************************************)
(* C9.  As claimed: when the call of a submission fails, one call has been *)
(* made, none is made again, the request ends with an error, and the       *)
(* transcript is the one the request found plus its user turn.             *)
(***************************************************************************)
FailureLeavesUserTurn(t) ==
    /\ calls[t] = 1
    /\ pc'[t] = "idle" /\ calls'[t] = 0
    /\ last'.response = "error" /\ last'.calls = 1 /\ last'.appended = 1
    /\ PriorPlusUserTurn(conversation_history', t)

C10_NoTurnLost ==
    \A t \in Threads :
        (/\ pc[t] = "respond" /\ ~reset_during[t]
         /\ SuccessfulSubmission(last) /\ ~last.disturbed)
            => Len(conversation_history)
                   >= Min(Len(before[t]), last.prior_len) + 4

\* Two submissions that found the same transcript, hence ran concurrently.
C10_Witness ==
    \E t \in Threads :
        /\ pc[t] = "respond" /\ ~reset_during[t] /\ interfered[t]
        /\ SuccessfulSubmission(last) /\ ~last.disturbed
        /\ last.prior_len = Len(before[t])
        /\ Len(conversation_history) = Len(before[t]) + 4

=============================================================================
